---- MODULE Spec2Model ----
(***************************************************************************)
(* A model of src/src/server.rs (TurboServer): connection admission, the   *)
(* per-client rate limiter, request dispatch (handle_request) and the      *)
(* Python worker pool.  Strings are sequences of bytes, so that case       *)
(* folding, splitting, trimming and hashing are computed, not assumed.     *)
(***************************************************************************)
EXTENDS Integers, Sequences, FiniteSets, TLC

\* ------------------------------------------------------------------ bounds
\* Largest available_parallelism() the model is started with.
MaxCores == 3
\* Connection contexts serving requests at the same time.
NumSlots == 3
\* Of these, the contexts used by the models that need no more than two.
NumLimitedSlots == 2
\* Largest available_parallelism() of the pool-size model (pools above 8).
MaxPoolCores == 11
\* Length of the long error text and of the long request path.
LongLen == 250
\* Requests issued in a run of the dispatch model / of the rate-limiter model.
MaxRequests == 3
MaxRateRequests == 5
\* add_route calls, worker crashes and configure_rate_limiting calls in a run.
MaxRegs == 2
MaxCrashes == 1
MaxConfigures == 2
\* Largest explicit requests_per_minute passed to configure_rate_limiting.
MaxQuota == 2
\* The clock advances in steps of TickStep seconds up to MaxTime.
TickStep == 20
MaxTime == 120

\* ------------------------------------------------------- program constants
\* check_rate_limit: Duration::from_secs(60)
Window == 60
\* check_rate_limit: tracker_guard.len() > 10000.  The model keeps the test
\* and scales the ceiling to the number of clients it has.
TrackerCeiling == 2
\* spawn_python_workers: mpsc::channel(20000).  Scaled the same way: a
\* queue fills when its worker is slow or stalled and envelopes keep coming
\* (an envelope stays queued when its requester has gone away).
QueueCapacity == 2
\* configure_rate_limiting: requests_per_minute.unwrap_or(1_000_000)
DefaultQuota == 1000000
\* run: available_parallelism().unwrap_or(8).max(8)
MinWorkers == 8
\* handle_request: e.to_string().chars().take(200)
MessageLimit == 200
\* handle_request: response_str.len() > 1024
ZeroCopyThreshold == 1024

VARIABLES
    \* ---- TurboServer::new / run: admission (lines 62-83, 164-205)
    cpu_cores,        \* std::thread::available_parallelism()
    worker_threads,   \* TurboServer.worker_threads
    available,        \* permits left in connection_semaphore
    tasks,            \* live connection tasks, each owning its _permit
    lastAccept,       \* what the last pass of the accept loop did
    lastEnd,          \* how the last connection task ended
    \* ---- rate limiter (lines 443-471, 576-606)
    rate_config,      \* RATE_LIMIT_CONFIG (a OnceLock)
    lastConfigure,    \* the arguments of the latest configure_rate_limiting
    configures,       \* configure_rate_limiting calls made
    tracker,          \* RATE_LIMIT_TRACKER: client -> (window start, count)
    trackerLock,      \* the slot inside the tracker's mutex, 0 when free
    now,              \* Instant::now(), in seconds
    gWin,             \* per client: the window the checks fall into, counted
                      \* from the calls alone (start, calls so far)
    admitted,         \* per client: the times of the admitted checks
    \* ---- handle_request (lines 232-411)
    ctx,              \* per slot: the request in hand and where it stands
    issued,           \* requests received so far
    \* ---- registry and route table (lines 50-51, 86-122)
    handlers,         \* route key -> HandlerMetadata
    router,           \* RadixRouter: the registered (method, template, key)
    reg,              \* the add_route call in progress
    regs,             \* add_route calls made
    lastReg,          \* per (upper-cased method, path): the handler of the
                      \* latest add_route call for it
    \* ---- worker pool (lines 677-717)
    alive,            \* per worker: its thread (and receiver) still exists
    queue,            \* per worker: the envelopes in its channel
    current,          \* per worker: the envelope it is executing
    reply,            \* per slot: the oneshot channel of its envelope
    crashes,          \* worker threads that have died
    entered,          \* per worker: the slots whose envelopes entered its
                      \* queue, in the order of entering
    resolved          \* per worker: the slots whose replies it has sent, in
                      \* the order of sending

admVars == <<cpu_cores, worker_threads, available, tasks, lastAccept, lastEnd>>
rateVars == <<rate_config, lastConfigure, configures, tracker, trackerLock,
              now, gWin, admitted>>
regVars == <<handlers, router, reg, regs, lastReg>>
poolVars == <<alive, queue, current, reply, crashes, entered, resolved>>

vars == <<cpu_cores, worker_threads, available, tasks, lastAccept, lastEnd,
          rate_config, lastConfigure, configures, tracker, trackerLock, now,
          gWin, admitted, ctx, issued, handlers, router, reg, regs, lastReg,
          alive, queue, current, reply, crashes, entered, resolved>>

Min(a, b) == IF a < b THEN a ELSE b
Max(a, b) == IF a > b THEN a ELSE b


\* ---------------------------------------------------------------- strings
\* A string is the sequence of its bytes.
Str_GET == <<71, 69, 84>>                      \* "GET"
Str_get == <<103, 101, 116>>                   \* "get"
Str_ping == <<47, 112, 105, 110, 103>>         \* "/ping"
Str_job == <<47, 106, 111, 98>>                \* "/job"
Str_missing == <<47, 120>>                     \* "/x"
Str_u4 == <<47, 117, 47, 52>>                  \* "/u/4"
Str_u_tmpl == <<47, 117, 47, 123, 105, 125>>   \* "/u/{i}"
Str_a == <<97>>                                \* "a"
Str_b == <<98>>                                \* "b"
Str_c == <<99>>                                \* "c"
Str_a_b == <<97, 44, 32, 98>>                  \* "a, b"
Str_sp_c == <<32, 99>>                         \* " c"
Str_bad == <<255>>                             \* not visible ASCII
Str_one == <<49>>                              \* "1"
Str_boom == <<98, 111, 111, 109>>              \* "boom"
\* "Python worker died"
Str_worker_died ==
    <<80, 121, 116, 104, 111, 110, 32, 119, 111, 114, 107, 101, 114, 32,
      100, 105, 101, 100>>
Str_validation == <<118, 97, 108, 105, 100, 97, 116, 105, 111, 110>>
Str_timeout == <<116, 105, 109, 101, 111, 117, 116>>
Str_not_found == <<110, 111, 116, 32, 102, 111, 117, 110, 100>>
Str_localhost == <<49, 50, 55, 46, 48, 46, 48, 46, 49>>   \* "127.0.0.1"
Str_HEAD == <<72, 69, 65, 68>>                 \* "HEAD"
\* "Python error: "
Str_python_error ==
    <<80, 121, 116, 104, 111, 110, 32, 101, 114, 114, 111, 114, 58, 32>>

None == [some |-> FALSE, val |-> <<>>]
Some(v) == [some |-> TRUE, val |-> v]

\* str::to_ascii_uppercase / String::to_uppercase on ASCII text
UpperByte(b) == IF b >= 97 /\ b <= 122 THEN b - 32 ELSE b
ToUpper(s) == [i \in 1..Len(s) |-> UpperByte(s[i])]

\* HeaderValue::to_str: Ok only for visible ASCII and tab
ToStrOk(v) == \A i \in 1..Len(v) : (v[i] >= 32 /\ v[i] <= 126) \/ v[i] = 9

\* s.split(sep).next(): the text before the first sep (all of s if none)
SplitFirst(s, sep) ==
    LET at == {i \in 1..Len(s) : s[i] = sep}
    IN  IF at = {} THEN s
        ELSE SubSeq(s, 1, (CHOOSE i \in at : \A j \in at : i <= j) - 1)

IsSpace(b) == b = 32 \/ b = 9 \/ b = 10 \/ b = 13
RECURSIVE TrimStart(_)
TrimStart(s) ==
    IF s # <<>> /\ IsSpace(Head(s)) THEN TrimStart(Tail(s)) ELSE s
RECURSIVE TrimEnd(_)
TrimEnd(s) ==
    IF s # <<>> /\ IsSpace(s[Len(s)]) THEN TrimEnd(SubSeq(s, 1, Len(s) - 1))
    ELSE s
\* str::trim
Trim(s) == TrimEnd(TrimStart(s))

\* str::contains
Contains(s, pat) ==
    \E i \in 0..(Len(s) - Len(pat)) : SubSeq(s, i + 1, i + Len(pat)) = pat

\* ------------------------------------------------- hash_route_key (FNV-1a)
\* A u64 is four 16-bit limbs, least significant first.
Limb == 2 ^ 16
FnvOffsetBasis == <<8997, 33826, 40164, 52210>>    \* 0xcbf29ce484222325

RECURSIVE XorBits(_, _, _)
\* a ^ b on the low n bits
XorBits(a, b, n) ==
    IF n = 0 THEN 0
    ELSE (((a % 2) + (b % 2)) % 2) + 2 * XorBits(a \div 2, b \div 2, n - 1)

\* hash ^= byte as u64
XorByte(h, byte) == [h EXCEPT ![1] = XorBits(h[1], byte, 16)]

\* hash.wrapping_mul(0x100000001b3): the prime is 2^40 + 0x1b3, that is
\* limbs <<435, 0, 256, 0>>; the product is cut to 64 bits.
WrappingMulPrime(h) ==
    LET r0 == h[1] * 435
        r1 == (h[2] * 435) + (r0 \div Limb)
        r2 == (h[3] * 435) + (h[1] * 256) + (r1 \div Limb)
        r3 == (h[4] * 435) + (h[2] * 256) + (r2 \div Limb)
    IN  <<r0 % Limb, r1 % Limb, r2 % Limb, r3 % Limb>>

RECURSIVE FnvFoldMulFirst(_, _)
FnvFoldMulFirst(h, bytes) ==
    IF bytes = <<>> THEN h
    ELSE FnvFoldMulFirst(XorByte(WrappingMulPrime(h), Head(bytes)), Tail(bytes))
RECURSIVE FnvFold(_, _)
FnvFold(h, bytes) ==
    IF bytes = <<>> THEN h
    ELSE FnvFold(WrappingMulPrime(XorByte(h, Head(bytes))), Tail(bytes))

\* hash_route_key: the u64 hash, as limbs (usize is 64 bits)
hash_route_key(route_key) == FnvFold(FnvOffsetBasis, route_key)

\* (hash as usize) % n
HashMod(h, n) ==
    LET m3 == h[4] % n
        m2 == ((m3 * Limb) + h[3]) % n
        m1 == ((m2 * Limb) + h[2]) % n
    IN  ((m1 * Limb) + h[1]) % n

\* ------------------------------------------------------------ rate limiter
\* RateLimitConfig; set = FALSE is the empty OnceLock
Unset == [set |-> FALSE, enabled |-> FALSE, requests_per_minute |-> 0]
NoneNum == [some |-> FALSE, val |-> 0]
SomeNum(n) == [some |-> TRUE, val |-> n]

\* configure_rate_limiting builds: RateLimitConfig { enabled,
\*   requests_per_minute: requests_per_minute.unwrap_or(1_000_000) }
MakeConfig(enabled, requests_per_minute) ==
    [set |-> TRUE, enabled |-> enabled,
     requests_per_minute |->
        IF requests_per_minute.some THEN requests_per_minute.val
        ELSE DefaultQuota]

\* OnceLock::set: stores the value only into an empty cell (the Err of a
\* later set is discarded by `let _ =`)
OnceLockSet(cell, value) == IF cell.set THEN cell ELSE value

\* RateLimitConfig::default, and OnceLock::get_or_init with it
DefaultConfig ==
    [set |-> TRUE, enabled |-> FALSE, requests_per_minute |-> DefaultQuota]
GetOrInit(cell) == IF cell.set THEN cell ELSE DefaultConfig

\* now.duration_since(entry.0) > window
WindowExpiredEarly(age) == age > 0
WindowExpired(age) == age > Window

\* retain(|_, (timestamp, _)| now.duration_since(*timestamp) < window)
Retained(age) == age < Window

\* entry.1 <= limit
WithinLimit(count, limit) == count <= limit

EmptyMap == [k \in {} |-> 0]

\* The body of check_rate_limit under the lock (lines 581-601): the entry is
\* fetched or inserted as (now, 0), reset if its window has expired, counted,
\* compared with the limit, and the map is compacted when it is over the
\* ceiling.  Gives the new map and the result.
CheckBody(tr, client_ip, t, limit) ==
    LET e0 == IF client_ip \in DOMAIN tr THEN tr[client_ip]
              ELSE [start |-> t, count |-> 0]
        e1 == IF WindowExpired(t - e0.start) THEN [start |-> t, count |-> 0]
              ELSE e0
        e2 == [e1 EXCEPT !.count = @ + 1]
        tr1 == [k \in (DOMAIN tr) \cup {client_ip} |->
                  IF k = client_ip THEN e2 ELSE tr[k]]
        tr2 == IF Cardinality(DOMAIN tr1) > TrackerCeiling
               THEN [k \in {j \in DOMAIN tr1 : Retained(t - tr1[j].start)}
                       |-> tr1[k]]
               ELSE tr1
    IN  [tracker |-> tr2, result |-> WithinLimit(e2.count, limit)]

\* handle_request lines 258-264: the identity the check is keyed by
ClientIp(req) ==
    IF req.xff.some /\ ToStrOk(req.xff.val)
      THEN Some(Trim(SplitFirst(req.xff.val, 44)))
      ELSE IF req.xri.some /\ ToStrOk(req.xri.val) THEN Some(req.xri.val)
      ELSE None

\* extract_client_ip (lines 555-573); no caller in server.rs.  A header
\* that is present but not a string falls through to the next rule.
extract_client_ip(req) ==
    IF req.xff.some /\ ToStrOk(req.xff.val)
      THEN Some(Trim(SplitFirst(req.xff.val, 44)))
      ELSE IF req.xri.some /\ ToStrOk(req.xri.val) THEN Some(req.xri.val)
      ELSE Some(Str_localhost)

RateInit ==
    /\ rate_config = Unset
    /\ lastConfigure = Unset
    /\ configures = 0
    /\ tracker = EmptyMap
    /\ trackerLock = 0
    /\ now = 0
    /\ gWin = EmptyMap
    /\ admitted = EmptyMap

\* configure_rate_limiting(enabled, requests_per_minute) (lines 465-471)
Configure(enabled, requests_per_minute, limit) ==
    /\ configures < limit
    /\ configures' = configures + 1
    /\ rate_config' =
          OnceLockSet(rate_config, MakeConfig(enabled, requests_per_minute))
    /\ lastConfigure' = MakeConfig(enabled, requests_per_minute)
    /\ UNCHANGED <<tracker, trackerLock, now, gWin, admitted>>
    /\ UNCHANGED <<admVars, ctx, issued, regVars, poolVars>>

\* Time passes.
Tick ==
    /\ now + TickStep <= MaxTime
    /\ now' = now + TickStep
    /\ UNCHANGED <<rate_config, lastConfigure, configures, tracker,
                   trackerLock, gWin, admitted>>
    /\ UNCHANGED <<admVars, ctx, issued, regVars, poolVars>>

\* ------------------------------------------------- registry and route table
HandlerIds == {"hSync", "hAsync"}

\* inspect.iscoroutinefunction(handler): "hHang" is a coroutine function
\* too, one whose coroutine never completes
IsCoroutineFunction(handler) == handler \in {"hAsync", "hHang"}

\* lines 703-705: whether the await of the handler's future comes back
ResolvesAlways(handler) == TRUE
Resolves(handler) == handler # "hHang"

NoMeta == [handler |-> "none", is_async |-> FALSE]
NoReg == [busy |-> FALSE, method |-> <<>>, path |-> <<>>, key |-> <<>>]

\* add_route: format!("{} {}", method.to_uppercase(), path)
RouteKeyAsGiven(method, path) == method \o <<32>> \o path
RouteKey(method, path) == ToUpper(method) \o <<32>> \o path

\* create_route_key_fast: the upper-cased method, a space, the path (the
\* stack-buffer and the heap branch build the same string)
create_route_key_fast(method, path) == ToUpper(method) \o <<32>> \o path

\* s.split('/') as a sequence of segments
RECURSIVE SplitAll(_, _)
SplitAll(s, sep) ==
    LET first == SplitFirst(s, sep)
    IN  IF Len(first) = Len(s) THEN <<first>>
        ELSE <<first>> \o SplitAll(SubSeq(s, Len(first) + 2, Len(s)), sep)

\* A template segment "{name}" captures any path segment.
IsParam(seg) == Len(seg) >= 2 /\ seg[1] = 123 /\ seg[Len(seg)] = 125

SegmentsMatch(tsegs, psegs) ==
    /\ Len(tsegs) = Len(psegs)
    /\ \A i \in 1..Len(tsegs) : IsParam(tsegs[i]) \/ tsegs[i] = psegs[i]

\* The number of leading segments matched literally: a literal child is
\* tried before a parameter child at every depth.
RECURSIVE LiteralPrefix(_, _)
LiteralPrefix(tsegs, psegs) ==
    IF tsegs = <<>> \/ IsParam(Head(tsegs)) THEN 0
    ELSE 1 + LiteralPrefix(Tail(tsegs), Tail(psegs))

\* RadixRouter::add_route(method, path, key): a later registration of the
\* same method and template replaces the earlier one.
RouterAdd(rt, method, path, key) ==
    {r \in rt : ~(r.method = method /\ r.path = path)}
        \cup {[method |-> method, path |-> path, key |-> key]}

\* RadixRouter::find_route(method, path): the routes of that method whose
\* template matches the path segment by segment.
RouterMatches(rt, method, path) ==
    {r \in rt : r.method = method
                /\ SegmentsMatch(SplitAll(r.path, 47), SplitAll(path, 47))}

\* The match find_route returns: the one that goes furthest on literals.
RouterFind(rt, method, path) ==
    LET psegs == SplitAll(path, 47)
        ms == RouterMatches(rt, method, path)
    IN  CHOOSE r \in ms :
          \A q \in ms : LiteralPrefix(SplitAll(r.path, 47), psegs)
                            >= LiteralPrefix(SplitAll(q.path, 47), psegs)

\* RouteMatch.params: (name, value) for every parameter segment of the
\* template, in the template's order.
RECURSIVE Captured(_, _)
Captured(tsegs, psegs) ==
    IF tsegs = <<>> THEN <<>>
    ELSE (IF IsParam(Head(tsegs))
            THEN << <<SubSeq(Head(tsegs), 2, Len(Head(tsegs)) - 1),
                      Head(psegs)>> >>
            ELSE <<>>)
         \o Captured(Tail(tsegs), Tail(psegs))

\* ------------------------------------------------------- handle_request
Slots == 1..NumSlots
\* run: num_workers = available_parallelism().unwrap_or(8).max(8)
NumWorkersFor(cores) == Max(cores, MinWorkers)
\* The indices of python_workers
Workers == 0..(NumWorkersFor(cpu_cores) - 1)

Ok(v) == [ok |-> TRUE, val |-> v]
Err(e) == [ok |-> FALSE, val |-> e]

NoHeaders ==
    [content_type |-> "", content_length |-> -1, retry_after |-> "",
     x_error_recovery |-> ""]
EmptyBody ==
    [kind |-> "none", error |-> "", message |-> "", text |-> <<>>,
     method |-> <<>>, path |-> <<>>, payload |-> <<>>, params |-> <<>>]
NoResp == [status |-> 0, headers |-> NoHeaders, body |-> EmptyBody]
NoReq == [method |-> <<>>, path |-> <<>>, xff |-> None, xri |-> None]

IdleCtx ==
    [pc |-> "idle", req |-> NoReq, meta |-> NoMeta, worker |-> 0,
     response_result |-> Ok(<<>>), resp |-> NoResp,
     \* what this request has done so far
     gateEnabled |-> FALSE, \* rate limiting was enabled when it passed the gate
     ip |-> None,           \* the identity its check was keyed by
     checked |-> "no",      \* the rate check: no | open | admit | reject
     nth |-> 0,             \* its rank among its client's checks of the window
     lookups |-> 0,         \* handler registry lookups
     routerLookups |-> 0,   \* route table lookups
     invoked |-> 0,         \* direct handler invocations
     sent |-> 0,            \* envelopes put into a worker queue
     chanFail |-> "none",   \* worker channel failure seen: none | send | reply
     waited |-> FALSE]      \* it was parked waiting for queue space

\* chars().take(n)
Take(s, n) == SubSeq(s, 1, Min(Len(s), n))

\* lines 268-276
RateLimitResponse ==
    [status |-> 429,
     headers |-> [NoHeaders EXCEPT !.content_type = "application/json",
                                   !.retry_after = "60"],
     body |-> [EmptyBody EXCEPT !.kind = "rate_limit",
                                !.error = "RateLimitExceeded",
                                !.message = "Too many requests"]]

\* lines 317-322: no content-type header is set here
UnavailableResponse ==
    [status |-> 503,
     headers |-> NoHeaders,
     body |-> [EmptyBody EXCEPT !.kind = "unavailable",
                                !.error = "Service Unavailable",
                                !.message = "Server overloaded"]]

\* create_zero_copy_response: Bytes::from(data.to_string())
create_zero_copy_response(data) == data

\* lines 330-349: content-length is the length of the result, the body is
\* empty for HEAD, and a result above the threshold goes through
\* create_zero_copy_response
SuccessResponseHeadBody(req, response_str) ==
    [status |-> 200,
     headers |-> [NoHeaders EXCEPT !.content_type = "application/json",
                                   !.content_length = Len(response_str)],
     body |-> [EmptyBody EXCEPT !.kind = "success",
                                !.payload = response_str]]
SuccessResponse(req, response_str) ==
    [status |-> 200,
     headers |-> [NoHeaders EXCEPT !.content_type = "application/json",
                                   !.content_length = Len(response_str)],
     body |-> [EmptyBody EXCEPT
                 !.kind = "success",
                 !.payload =
                    IF ToUpper(req.method) = Str_HEAD THEN <<>>
                    ELSE IF Len(response_str) > ZeroCopyThreshold
                      THEN create_zero_copy_response(response_str)
                    ELSE response_str]]

\* lines 356-361: the first substring that is found decides
ErrorStatusTimeoutFirst(e) ==
    IF Contains(e, Str_timeout) THEN 408
    ELSE IF Contains(e, Str_validation) THEN 400
    ELSE IF Contains(e, Str_not_found) THEN 404
    ELSE 500
ErrorStatus(e) ==
    IF Contains(e, Str_validation) THEN 400
    ELSE IF Contains(e, Str_timeout) THEN 408
    ELSE IF Contains(e, Str_not_found) THEN 404
    ELSE 500
ErrorType(e) ==
    IF Contains(e, Str_validation) THEN "ValidationError"
    ELSE IF Contains(e, Str_timeout) THEN "TimeoutError"
    ELSE IF Contains(e, Str_not_found) THEN "NotFoundError"
    ELSE "InternalServerError"

\* lines 351-375
ErrorResponse(req, e) ==
    [status |-> ErrorStatus(e),
     headers |-> [NoHeaders EXCEPT !.content_type = "application/json",
                                   !.x_error_recovery = "attempted"],
     body |-> [EmptyBody EXCEPT !.kind = "handler_error",
                                !.error = ErrorType(e),
                                !.message = "Request failed: ",
                                !.text = Take(e, MessageLimit),
                                !.method = req.method,
                                !.path = req.path]]

\* lines 329-376: match response_result
ShapeResult(req, result) ==
    IF result.ok THEN SuccessResponse(req, result.val)
    ELSE ErrorResponse(req, result.val)

\* lines 384-398
ParamMatchAsNotFound(req, params) ==
    [status |-> 404,
     headers |-> [NoHeaders EXCEPT !.content_type = "application/json"],
     body |-> [EmptyBody EXCEPT !.kind = "not_found",
                                !.error = "Not Found",
                                !.message = "No handler registered for ",
                                !.method = req.method,
                                !.path = req.path]]
ParamMatchResponse(req, params) ==
    [status |-> 200,
     headers |-> [NoHeaders EXCEPT !.content_type = "application/json"],
     body |-> [EmptyBody EXCEPT !.kind = "param_match",
                                !.message = "Parameterized route found",
                                !.method = req.method,
                                !.path = req.path,
                                !.params = params]]

\* lines 400-410
NotFoundBare(req) == [status |-> 404, headers |-> NoHeaders, body |-> EmptyBody]
NotFoundResponse(req) ==
    [status |-> 404,
     headers |-> [NoHeaders EXCEPT !.content_type = "application/json"],
     body |-> [EmptyBody EXCEPT !.kind = "not_found",
                                !.error = "Not Found",
                                !.message = "No handler registered for ",
                                !.method = req.method,
                                !.path = req.path]]

\* The bytes of the string literals that the response builders put into
\* their format strings (lines 269, 320, 357-360, 364, 389, 402)
Bytes(lit) ==
    CASE lit = "RateLimitExceeded" ->
        <<82, 97, 116, 101, 76, 105, 109, 105, 116, 69, 120, 99, 101, 101, 100, 101, 100>>
      [] lit = "Too many requests" ->
        <<84, 111, 111, 32, 109, 97, 110, 121, 32, 114, 101, 113, 117, 101, 115, 116, 115>>
      [] lit = "Service Unavailable" ->
        <<83, 101, 114, 118, 105, 99, 101, 32, 85, 110, 97, 118, 97, 105, 108, 97, 98, 108, 101>>
      [] lit = "Server overloaded" ->
        <<83, 101, 114, 118, 101, 114, 32, 111, 118, 101, 114, 108, 111, 97, 100, 101, 100>>
      [] lit = "ValidationError" ->
        <<86, 97, 108, 105, 100, 97, 116, 105, 111, 110, 69, 114, 114, 111, 114>>
      [] lit = "TimeoutError" ->
        <<84, 105, 109, 101, 111, 117, 116, 69, 114, 114, 111, 114>>
      [] lit = "NotFoundError" ->
        <<78, 111, 116, 70, 111, 117, 110, 100, 69, 114, 114, 111, 114>>
      [] lit = "InternalServerError" ->
        <<73, 110, 116, 101, 114, 110, 97, 108, 83, 101, 114, 118, 101, 114, 69, 114, 114, 111, 114>>
      [] lit = "Request failed: " ->
        <<82, 101, 113, 117, 101, 115, 116, 32, 102, 97, 105, 108, 101, 100, 58, 32>>
      [] lit = "Not Found" ->
        <<78, 111, 116, 32, 70, 111, 117, 110, 100>>
      [] lit = "No handler registered for " ->
        <<78, 111, 32, 104, 97, 110, 100, 108, 101, 114, 32, 114, 101, 103, 105, 115, 116, 101, 114, 101, 100, 32, 102, 111, 114, 32>>
      [] lit = "Parameterized route found" ->
        <<80, 97, 114, 97, 109, 101, 116, 101, 114, 105, 122, 101, 100, 32, 114, 111, 117, 116, 101, 32, 102, 111, 117, 110, 100>>
      [] OTHER -> <<>>

\* The body as the bytes that go on the wire: the format! calls of lines
\* 268-270, 320, 363-367, 388-391 and 401-404 put their arguments into
\* the text as they are; nothing is escaped. The timestamp is the decimal
\* text of SystemTime's seconds; the params are the Debug text of the
\* captured names and values.
BodyText(body) ==
    LET timestamp == <<49, 55>>
        DebugStr(v) == <<34>> \o v \o <<34>>
        DebugParams[ps \in Seq(Seq(Seq(Nat)))] ==
            IF ps = <<>> THEN <<>>
            ELSE DebugStr(ps[1][1]) \o <<58, 32>> \o DebugStr(ps[1][2])
                 \o (IF Len(ps) > 1 THEN <<44, 32>> ELSE <<>>)
                 \o DebugParams[Tail(ps)]
    IN
    CASE body.kind = "rate_limit" ->
           <<123, 34, 101, 114, 114, 111, 114, 34, 58, 32, 34>>   \* {"error": "
        \o Bytes(body.error)
        \o <<34, 44, 32, 34, 109, 101, 115, 115, 97, 103, 101, 34, 58, 32, 34>>   \* ", "message": "
        \o Bytes(body.message)
        \o <<34, 44, 32, 34, 114, 101, 116, 114, 121, 95, 97, 102, 116, 101, 114, 34, 58, 32, 54, 48, 125>>   \* ", "retry_after": 60}
      [] body.kind = "unavailable" ->
           <<123, 34, 101, 114, 114, 111, 114, 34, 58, 32, 34>>   \* {"error": "
        \o Bytes(body.error)
        \o <<34, 44, 32, 34, 109, 101, 115, 115, 97, 103, 101, 34, 58, 32, 34>>   \* ", "message": "
        \o Bytes(body.message)
        \o <<34, 125>>   \* "}
      [] body.kind = "handler_error" ->
           <<123, 34, 101, 114, 114, 111, 114, 34, 58, 32, 34>>   \* {"error": "
        \o Bytes(body.error)
        \o <<34, 44, 32, 34, 109, 101, 115, 115, 97, 103, 101, 34, 58, 32, 34>>   \* ", "message": "
        \o Bytes(body.message)
        \o body.text
        \o <<34, 44, 32, 34, 109, 101, 116, 104, 111, 100, 34, 58, 32, 34>>   \* ", "method": "
        \o body.method
        \o <<34, 44, 32, 34, 112, 97, 116, 104, 34, 58, 32, 34>>   \* ", "path": "
        \o body.path
        \o <<34, 44, 32, 34, 116, 105, 109, 101, 115, 116, 97, 109, 112, 34, 58, 32>>   \* ", "timestamp": 
        \o timestamp
        \o <<125>>   \* }
      [] body.kind = "param_match" ->
           <<123, 34, 109, 101, 115, 115, 97, 103, 101, 34, 58, 32, 34>>   \* {"message": "
        \o Bytes(body.message)
        \o <<34, 44, 32, 34, 109, 101, 116, 104, 111, 100, 34, 58, 32, 34>>   \* ", "method": "
        \o body.method
        \o <<34, 44, 32, 34, 112, 97, 116, 104, 34, 58, 32, 34>>   \* ", "path": "
        \o body.path
        \o <<34, 44, 32, 34, 115, 116, 97, 116, 117, 115, 34, 58, 32, 34, 115, 117, 99, 99, 101, 115, 115, 34, 44, 32, 34, 114, 111, 117, 116, 101, 95, 107, 101, 121, 34, 58, 32, 34>>   \* ", "status": "success", "route_key": "
        \o create_route_key_fast(body.method, body.path)
        \o <<34, 44, 32, 34, 112, 97, 114, 97, 109, 115, 34, 58, 32, 34>>   \* ", "params": "
        \o <<123>> \o DebugParams[body.params] \o <<125>>
        \o <<34, 125>>   \* "}
      [] body.kind = "not_found" ->
           <<123, 34, 101, 114, 114, 111, 114, 34, 58, 32, 34>>   \* {"error": "
        \o Bytes(body.error)
        \o <<34, 44, 32, 34, 109, 101, 115, 115, 97, 103, 101, 34, 58, 32, 34>>   \* ", "message": "
        \o Bytes(body.message)
        \o body.method
        \o <<32>>   \*  
        \o body.path
        \o <<34, 44, 32, 34, 109, 101, 116, 104, 111, 100, 34, 58, 32, 34>>   \* ", "method": "
        \o body.method
        \o <<34, 44, 32, 34, 112, 97, 116, 104, 34, 58, 32, 34>>   \* ", "path": "
        \o body.path
        \o <<34, 44, 32, 34, 97, 118, 97, 105, 108, 97, 98, 108, 101, 95, 114, 111, 117, 116, 101, 115, 34, 58, 32, 34, 67, 104, 101, 99, 107, 32, 114, 101, 103, 105, 115, 116, 101, 114, 101, 100, 32, 114, 111, 117, 116, 101, 115, 34, 125>>   \* ", "available_routes": "Check registered routes"}
      [] OTHER -> body.payload

\* resp_rx.await on a dropped sender: Err("Python worker died")
WorkerDiedResult == Err(Str_worker_died)

\* call_python_handler_sync_direct: the handler's string, or
\* "Python error: ..." when it raises
DirectOutcomes == {Ok(Str_one), Err(Str_python_error \o Str_boom)}
\* handle_python_request_on_worker_no_cache: likewise on the worker
WorkerOutcomes == {Ok(Str_one), Err(Str_python_error \o Str_boom)}

\* probes: the iscoroutinefunction calls the worker has made on the
\* envelope's handler (lines 736-740)
NoEnv ==
    [handler |-> "none", method |-> <<>>, path |-> <<>>, slot |-> 0,
     probes |-> 0]
NoReply == [state |-> "none", res |-> Ok(<<>>)]

\* The requests the models draw from.
HeaderChoices ==
    { <<None, None>>, <<Some(Str_a_b), Some(Str_b)>>,
      <<None, Some(Str_b)>>, <<Some(Str_bad), Some(Str_sp_c)>> }
Requests(methods, paths, hdrs) ==
    { [method |-> m, path |-> p, xff |-> h[1], xri |-> h[2]] :
        m \in methods, p \in paths, h \in hdrs }

DispatchInit ==
    /\ ctx = [s \in Slots |-> IdleCtx]
    /\ issued = 0
    /\ handlers = EmptyMap
    /\ router = {}
    /\ reg = NoReg
    /\ regs = 0
    /\ lastReg = EmptyMap
    /\ alive = [w \in Workers |-> TRUE]
    /\ queue = [w \in Workers |-> <<>>]
    /\ current = [w \in Workers |-> NoEnv]
    /\ reply = [s \in Slots |-> NoReply]
    /\ crashes = 0
    /\ entered = [w \in Workers |-> <<>>]
    /\ resolved = [w \in Workers |-> <<>>]

\* add_route, first half (lines 87-112): the probe, then the insert into
\* handlers under its write lock.
AddRouteBegin(method, path, handler) ==
    /\ ~reg.busy
    /\ regs < MaxRegs
    /\ regs' = regs + 1
    /\ LET route_key == RouteKey(method, path)
           meta == [handler |-> handler,
                    is_async |-> IsCoroutineFunction(handler)]
       IN  /\ handlers' = [k \in (DOMAIN handlers) \cup {route_key} |->
                              IF k = route_key THEN meta ELSE handlers[k]]
           /\ reg' = [busy |-> TRUE, method |-> ToUpper(method),
                      path |-> path, key |-> route_key]
    /\ lastReg' = [k \in (DOMAIN lastReg) \cup {<<ToUpper(method), path>>} |->
                     IF k = <<ToUpper(method), path>> THEN handler
                     ELSE lastReg[k]]
    /\ UNCHANGED <<router, ctx, issued>>
    /\ UNCHANGED <<admVars, rateVars, poolVars>>

\* add_route, second half (lines 114-116): the insert into the router under
\* its own write lock.
AddRouteFinish ==
    /\ reg.busy
    /\ router' = RouterAdd(router, reg.method, reg.path, reg.key)
    /\ reg' = NoReg
    /\ UNCHANGED <<handlers, regs, lastReg, ctx, issued>>
    /\ UNCHANGED <<admVars, rateVars, poolVars>>

\* A connection context receives its next request (lines 239-249).
Arrive(s, req, limit) ==
    /\ ctx[s].pc \in {"idle", "done"}
    /\ issued < limit
    /\ issued' = issued + 1
    /\ ctx' = [ctx EXCEPT ![s] = [IdleCtx EXCEPT !.pc = "rate", !.req = req]]
    /\ UNCHANGED <<admVars, rateVars, regVars, poolVars>>

\* lines 254-266 when no check is made: no configuration, a disabled one,
\* or no client identity.
RateSkip(s) ==
    /\ ctx[s].pc = "rate"
    /\ \/ ~rate_config.set
       \/ ~rate_config.enabled
       \/ ~ClientIp(ctx[s].req).some
    /\ ctx' = [ctx EXCEPT ![s].pc = "lookup",
                          ![s].gateEnabled =
                              rate_config.set /\ rate_config.enabled,
                          ![s].ip = ClientIp(ctx[s].req)]
    /\ UNCHANGED <<issued, admVars, rateVars, regVars, poolVars>>

RateChecked(s) ==
    /\ ctx[s].pc = "rate"
    /\ rate_config.set
    /\ rate_config.enabled
    /\ ClientIp(ctx[s].req).some

\* check_rate_limit, tracker.try_lock() succeeds (line 580)
RateTryLock(s) ==
    /\ RateChecked(s)
    /\ trackerLock = 0
    /\ trackerLock' = s
    /\ rate_config' = GetOrInit(rate_config)
    /\ ctx' = [ctx EXCEPT ![s].pc = "rate_locked",
                          ![s].gateEnabled = TRUE,
                          ![s].ip = ClientIp(ctx[s].req)]
    /\ UNCHANGED <<lastConfigure, configures, tracker, now, gWin, admitted>>
    /\ UNCHANGED <<issued, admVars, regVars, poolVars>>

\* What a check_rate_limit call that finds the lock taken does to the
\* request (lines 602-605): true, at once.
FailClosed(c) ==
    [c EXCEPT !.pc = "done", !.checked = "open", !.resp = RateLimitResponse]
FailOpen(c) == [c EXCEPT !.pc = "lookup", !.checked = "open"]

\* check_rate_limit, tracker.try_lock() fails: another context is inside
RateFailOpen(s) ==
    /\ RateChecked(s)
    /\ trackerLock # 0
    /\ rate_config' = GetOrInit(rate_config)
    /\ ctx' = [ctx EXCEPT ![s] = [FailOpen(@) EXCEPT
                                     !.gateEnabled = TRUE,
                                     !.ip = ClientIp(ctx[s].req)]]
    /\ UNCHANGED <<lastConfigure, configures, tracker, trackerLock, now,
                   gWin, admitted>>
    /\ UNCHANGED <<issued, admVars, regVars, poolVars>>

\* The window a check falls into, told from the calls alone: the first call
\* opens a window, a call later than the window's length after its start
\* opens the next one.
GhostWindow(g, ip, t) ==
    IF ip \notin DOMAIN g \/ t - g[ip].start > Window
      THEN [start |-> t, calls |-> 1]
      ELSE [g[ip] EXCEPT !.calls = @ + 1]

\* What dispatch does with a failed check (lines 267-277)
RejectPassesOn(c) == [c EXCEPT !.pc = "lookup", !.checked = "reject"]
Reject(c) ==
    [c EXCEPT !.pc = "done", !.checked = "reject", !.resp = RateLimitResponse]

\* check_rate_limit under the lock (lines 581-601), the unlock, and the
\* branch of handle_request on the result (lines 267-277)
RateBody(s) ==
    /\ ctx[s].pc = "rate_locked"
    /\ LET ip == ClientIp(ctx[s].req).val
           out == CheckBody(tracker, ip, now, rate_config.requests_per_minute)
           g == GhostWindow(gWin, ip, now)
       IN  /\ tracker' = out.tracker
           /\ gWin' = [k \in (DOMAIN gWin) \cup {ip} |->
                          IF k = ip THEN g ELSE gWin[k]]
           /\ admitted' = [k \in (DOMAIN admitted) \cup {ip} |->
                 LET old == IF k \in DOMAIN admitted THEN admitted[k] ELSE <<>>
                 IN  IF k = ip /\ out.result THEN Append(old, now) ELSE old]
           /\ ctx' = [ctx EXCEPT ![s] =
                 IF out.result
                   THEN [@ EXCEPT !.pc = "lookup", !.checked = "admit",
                                  !.nth = g.calls]
                   ELSE [Reject(@) EXCEPT !.nth = g.calls]]
    /\ trackerLock' = 0
    /\ UNCHANGED <<rate_config, lastConfigure, configures, now>>
    /\ UNCHANGED <<issued, admVars, regVars, poolVars>>

\* lines 283-298: the route key, the lookup in handlers under its read lock
\* and the branch on the cached is_async
LookupSwapped(s) ==
    /\ ctx[s].pc = "lookup"
    /\ LET route_key == create_route_key_fast(ctx[s].req.method, ctx[s].req.path)
           found == route_key \in DOMAIN handlers
           meta == IF found THEN handlers[route_key] ELSE NoMeta
       IN  ctx' = [ctx EXCEPT
                     ![s].lookups = @ + 1,
                     ![s].meta = meta,
                     ![s].worker =
                        IF found
                          THEN HashMod(hash_route_key(route_key),
                                       Cardinality(Workers))
                          ELSE 0,
                     ![s].pc = IF ~found THEN "router"
                               ELSE IF meta.is_async THEN "direct"
                               ELSE "send"]
    /\ UNCHANGED <<issued, admVars, rateVars, regVars, poolVars>>
Lookup(s) ==
    /\ ctx[s].pc = "lookup"
    /\ LET route_key == create_route_key_fast(ctx[s].req.method, ctx[s].req.path)
           found == route_key \in DOMAIN handlers
           meta == IF found THEN handlers[route_key] ELSE NoMeta
       IN  ctx' = [ctx EXCEPT
                     ![s].lookups = @ + 1,
                     ![s].meta = meta,
                     ![s].worker =
                        IF found /\ meta.is_async
                          THEN HashMod(hash_route_key(route_key),
                                       Cardinality(Workers))
                          ELSE 0,
                     ![s].pc = IF ~found THEN "router"
                               ELSE IF meta.is_async THEN "send"
                               ELSE "direct"]
    /\ UNCHANGED <<issued, admVars, rateVars, regVars, poolVars>>

\* line 326 and lines 329-376: the direct call and the shaping of its result
DirectCallRetry(s, outcome) ==
    /\ ctx[s].pc = "direct"
    /\ ctx' = [ctx EXCEPT
          ![s].invoked = @ + 1,
          ![s].response_result = outcome,
          ![s].resp = IF outcome.ok \/ ctx[s].invoked >= 1
                        THEN ShapeResult(ctx[s].req, outcome) ELSE NoResp,
          ![s].pc = IF outcome.ok \/ ctx[s].invoked >= 1
                      THEN "done" ELSE "direct"]
    /\ UNCHANGED <<issued, admVars, rateVars, regVars, poolVars>>
DirectCall(s, outcome) ==
    /\ ctx[s].pc = "direct"
    /\ ctx' = [ctx EXCEPT ![s].invoked = @ + 1,
                          ![s].response_result = outcome,
                          ![s].resp = ShapeResult(ctx[s].req, outcome),
                          ![s].pc = "done"]
    /\ UNCHANGED <<issued, admVars, rateVars, regVars, poolVars>>

\* lines 379-410: the route table under its read lock, then the diagnostic
\* 200 or the 404
RouterLookup(s) ==
    /\ ctx[s].pc = "router"
    /\ ctx' = [ctx EXCEPT
                 ![s].routerLookups = @ + 1,
                 ![s].resp =
                    IF RouterMatches(router, ctx[s].req.method,
                                     ctx[s].req.path) # {}
                      THEN ParamMatchResponse(ctx[s].req,
                             Captured(
                               SplitAll(RouterFind(router, ctx[s].req.method,
                                                   ctx[s].req.path).path, 47),
                               SplitAll(ctx[s].req.path, 47)))
                      ELSE NotFoundResponse(ctx[s].req),
                 ![s].pc = "done"]
    /\ UNCHANGED <<issued, admVars, rateVars, regVars, poolVars>>

Envelope(s) ==
    [handler |-> ctx[s].meta.handler, method |-> ctx[s].req.method,
     path |-> ctx[s].req.path, slot |-> s, probes |-> 0]

\* mpsc::Sender::send polled: Err when the receiver is gone, the message is
\* queued when there is room, and otherwise the sender is parked until
\* there is room (it never returns "full").
SendOutcome(is_alive, len) ==
    IF ~is_alive THEN "error"
    ELSE IF len < QueueCapacity THEN "queued"
    ELSE "parked"

\* What dispatch makes of a reply channel whose sender was dropped
\* (lines 312-315): a handler error with the text "Python worker died".
ReplyDroppedResponse(req) == ShapeResult(req, WorkerDiedResult)

SendStep(s) ==
    LET w == ctx[s].worker
        outcome == SendOutcome(alive[w], Len(queue[w]))
    IN  /\ queue' = IF outcome = "queued"
                      THEN [queue EXCEPT ![w] = Append(@, Envelope(s))]
                      ELSE queue
        /\ reply' = IF outcome = "queued"
                      THEN [reply EXCEPT ![s] = [state |-> "pending",
                                                 res |-> Ok(<<>>)]]
                      ELSE reply
        /\ ctx' = [ctx EXCEPT ![s] =
              IF outcome = "error"
                THEN [@ EXCEPT !.pc = "done", !.chanFail = "send",
                               !.resp = UnavailableResponse]
              ELSE IF outcome = "queued"
                THEN [@ EXCEPT !.pc = "await", !.sent = @ + 1]
              ELSE [@ EXCEPT !.pc = "send_pending", !.waited = TRUE]]
        /\ entered' = IF outcome = "queued"
                        THEN [entered EXCEPT ![w] = Append(@, s)]
                        ELSE entered
        /\ UNCHANGED <<alive, current, crashes, resolved>>
        /\ UNCHANGED <<issued, admVars, rateVars, regVars>>

\* line 310, first poll of worker_tx.send(python_req).await
SendPoll(s) ==
    /\ ctx[s].pc = "send"
    /\ SendStep(s)

\* line 310, the parked send is woken: by room in the queue or by the
\* receiver being dropped
SendWake(s) ==
    /\ ctx[s].pc = "send_pending"
    /\ SendOutcome(alive[ctx[s].worker], Len(queue[ctx[s].worker])) # "parked"
    /\ SendStep(s)

\* lines 312-315 and 329-376: the reply arrives, or its sender was dropped
AwaitReply(s) ==
    /\ ctx[s].pc = "await"
    /\ reply[s].state \in {"value", "dropped"}
    /\ ctx' = [ctx EXCEPT ![s] =
          IF reply[s].state = "value"
            THEN [@ EXCEPT !.pc = "done",
                           !.response_result = reply[s].res,
                           !.resp = ShapeResult(ctx[s].req, reply[s].res)]
            ELSE [@ EXCEPT !.pc = "done", !.chanFail = "reply",
                           !.response_result = WorkerDiedResult,
                           !.resp = ReplyDroppedResponse(ctx[s].req)]]
    /\ reply' = [reply EXCEPT ![s] = NoReply]
    /\ UNCHANGED <<alive, queue, current, crashes, entered, resolved>>
    /\ UNCHANGED <<issued, admVars, rateVars, regVars>>

\* ------------------------------------------------------------ worker pool
\* line 702: rx.recv().await gives the oldest envelope, and
\* handle_python_request_on_worker_no_cache starts on it by asking
\* inspect.iscoroutinefunction about its handler (lines 736-740)
WorkerRecvNewest(w) ==
    /\ alive[w]
    /\ current[w] = NoEnv
    /\ queue[w] # <<>>
    /\ current' = [current EXCEPT ![w] =
                       [queue[w][Len(queue[w])] EXCEPT !.probes = @ + 1]]
    /\ queue' = [queue EXCEPT ![w] = SubSeq(@, 1, Len(@) - 1)]
    /\ UNCHANGED <<alive, reply, crashes, entered, resolved>>
    /\ UNCHANGED <<ctx, issued, admVars, rateVars, regVars>>
WorkerRecv(w) ==
    /\ alive[w]
    /\ current[w] = NoEnv
    /\ queue[w] # <<>>
    /\ current' = [current EXCEPT ![w] =
                       [Head(queue[w]) EXCEPT !.probes = @ + 1]]
    /\ queue' = [queue EXCEPT ![w] = Tail(@)]
    /\ UNCHANGED <<alive, reply, crashes, entered, resolved>>
    /\ UNCHANGED <<ctx, issued, admVars, rateVars, regVars>>

\* lines 703-707: the handler has run to its result, which is sent on the
\* envelope's reply channel
WorkerFinish(w, outcome) ==
    /\ alive[w]
    /\ current[w] # NoEnv
    /\ reply' = [reply EXCEPT ![current[w].slot] =
                    [state |-> "value", res |-> outcome]]
    /\ current' = [current EXCEPT ![w] = NoEnv]
    /\ resolved' = [resolved EXCEPT ![w] = Append(@, current[w].slot)]
    /\ UNCHANGED <<alive, queue, crashes, entered>>
    /\ UNCHANGED <<ctx, issued, admVars, rateVars, regVars>>

\* A panic while the envelope is executed (the unwrap()s of lines 736-744)
\* ends the worker thread: the receiver and everything queued in it are
\* dropped, and with them the reply senders.
WorkerDieKeepsQueued(w) ==
    /\ alive[w]
    /\ current[w] # NoEnv
    /\ crashes < MaxCrashes
    /\ crashes' = crashes + 1
    /\ alive' = [alive EXCEPT ![w] = FALSE]
    /\ reply' = [reply EXCEPT ![current[w].slot] =
                    [state |-> "dropped", res |-> Ok(<<>>)]]
    /\ queue' = [queue EXCEPT ![w] = <<>>]
    /\ current' = [current EXCEPT ![w] = NoEnv]
    /\ UNCHANGED <<entered, resolved>>
    /\ UNCHANGED <<ctx, issued, admVars, rateVars, regVars>>
WorkerDie(w) ==
    /\ alive[w]
    /\ current[w] # NoEnv
    /\ crashes < MaxCrashes
    /\ crashes' = crashes + 1
    /\ alive' = [alive EXCEPT ![w] = FALSE]
    /\ LET lost == {current[w].slot}
                     \cup {queue[w][i].slot : i \in 1..Len(queue[w])}
       IN  reply' = [s \in Slots |->
                        IF s \in lost THEN [state |-> "dropped",
                                            res |-> Ok(<<>>)]
                        ELSE reply[s]]
    /\ queue' = [queue EXCEPT ![w] = <<>>]
    /\ current' = [current EXCEPT ![w] = NoEnv]
    /\ UNCHANGED <<entered, resolved>>
    /\ UNCHANGED <<ctx, issued, admVars, rateVars, regVars>>


\* ------------------------------------------------------------- admission
\* TurboServer::new: ((cpu_cores * 3).min(24)).max(8)
WorkerThreadsFor(cores) == Max(Min(cores * 3, 24), 8)

\* run: base_connections = worker_threads * 50;
\*      max_connections = (base_connections * 110) / 100
max_connections == ((worker_threads * 50) * 110) \div 100

\* The ways a connection task can end: serve_connection returns Ok (normal
\* close), returns Err (transport error, discarded by `let _ =`), or a panic
\* inside request handling unwinds the task.
EndKinds == {"close", "error", "panic"}

\* Dropping the task's future drops _permit, on every kind of end.
PermitsReleasedLeaky(how) == IF how = "panic" THEN 0 ELSE 1
PermitsReleased(how) == 1

\* Semaphore::try_acquire_owned: Ok exactly when a permit is left.
TryAcquireLoose(avail) == avail >= 0
TryAcquire(avail) == avail > 0

\* The server constructed and started on a machine reporting `cores`.
AdmInitFor(cores) ==
    /\ cpu_cores = cores
    /\ worker_threads = WorkerThreadsFor(cores)
    /\ available = max_connections
    /\ tasks = 0
    /\ lastAccept = "none"
    /\ lastEnd = "none"

AdmInit == \E cores \in 1..MaxCores : AdmInitFor(cores)

\* One pass of the accept loop (lines 169-205): accept, try_acquire_owned,
\* then either drop the stream and continue, or spawn the connection task
\* that owns the permit.  There is no suspension point between the two.
Accept ==
    /\ IF TryAcquire(available)
         THEN /\ available' = available - 1
              /\ tasks' = tasks + 1
              /\ lastAccept' = "admitted"
         ELSE /\ UNCHANGED <<available, tasks>>
              /\ lastAccept' = "dropped"
    /\ UNCHANGED <<cpu_cores, worker_threads, lastEnd>>
    /\ UNCHANGED <<rateVars, ctx, issued, regVars, poolVars>>

\* A connection task ends; its future, and with it _permit, is dropped.
ConnEnd(how) ==
    /\ tasks > 0
    /\ tasks' = tasks - 1
    /\ available' = available + PermitsReleased(how)
    /\ lastEnd' = how
    /\ UNCHANGED <<cpu_cores, worker_threads, lastAccept>>
    /\ UNCHANGED <<rateVars, ctx, issued, regVars, poolVars>>

AdmNext ==
    \/ Accept
    \/ \E how \in EndKinds : ConnEnd(how)

\* ---------------------------------------------------------- specifications
Init == AdmInit /\ RateInit /\ DispatchInit

\* Admission alone: the accept loop and the connection tasks.
SpecAdmission == Init /\ [][AdmNext]_vars

\* The dispatch models start on a machine with one core reported.
InitOneCore == AdmInitFor(1) /\ RateInit /\ DispatchInit

QuotaChoices == {NoneNum} \cup {SomeNum(n) : n \in 1..MaxQuota}

\* The rate limiter under one connection context: requests of several
\* clients, one after the other, while time passes.  Nothing is registered,
\* so an admitted request ends in the 404 of lines 400-410.
RateRequests == Requests({Str_GET}, {Str_missing}, HeaderChoices)
RateNext ==
    \* one call: a later one would change nothing but lastConfigure
    \/ \E enabled \in BOOLEAN, q \in QuotaChoices : Configure(enabled, q, 1)
    \/ Tick
    \/ \E req \in RateRequests : Arrive(1, req, MaxRateRequests)
    \/ RateSkip(1)
    \/ RateTryLock(1)
    \/ RateBody(1)
    \/ Lookup(1)
    \/ RouterLookup(1)

SpecRate == InitOneCore /\ [][RateNext]_vars

\* Dispatch with the rate limiter in use: a direct route, concurrent
\* requests with and without an identity header, and configure calls, with
\* the clock standing still (requests in rapid succession).
LimitedSlots == 1..NumLimitedSlots
LimitedQuotaChoices == {SomeNum(n) : n \in 1..MaxQuota}
LimitedRequests ==
    Requests({Str_GET}, {Str_ping}, {<<None, None>>, <<Some(Str_a), None>>})
LimitedNext ==
    \/ AddRouteBegin(Str_GET, Str_ping, "hSync")
    \/ AddRouteFinish
    \/ \E enabled \in BOOLEAN, q \in LimitedQuotaChoices :
          Configure(enabled, q, MaxConfigures)
    \/ \E s \in LimitedSlots :
          \/ \E req \in LimitedRequests : Arrive(s, req, MaxRequests)
          \/ RateSkip(s)
          \/ RateTryLock(s)
          \/ RateFailOpen(s)
          \/ RateBody(s)
          \/ Lookup(s)
          \/ \E outcome \in DirectOutcomes : DirectCall(s, outcome)
          \/ RouterLookup(s)

SpecLimited == InitOneCore /\ [][LimitedNext]_vars

\* Dispatch proper: registrations, concurrent requests and the worker pool.
\* The rate limiter is left unconfigured, which is its default.
DispatchRequests ==
    Requests({Str_GET}, {Str_ping, Str_job, Str_missing}, {<<None, None>>})
Next ==
    \/ \E m \in {Str_GET}, p \in {Str_ping, Str_job}, h \in HandlerIds :
          AddRouteBegin(m, p, h)
    \/ AddRouteFinish
    \/ \E s \in Slots :
          \/ \E req \in DispatchRequests : Arrive(s, req, MaxRequests)
          \/ RateSkip(s)
          \/ Lookup(s)
          \/ \E outcome \in DirectOutcomes : DirectCall(s, outcome)
          \/ RouterLookup(s)
          \/ SendPoll(s)
          \/ SendWake(s)
          \/ AwaitReply(s)
    \/ \E w \in Workers :
          \/ WorkerRecv(w)
          \/ \E outcome \in WorkerOutcomes : WorkerFinish(w, outcome)
          \/ WorkerDie(w)

Spec == InitOneCore /\ [][Next]_vars

\* Worker selection over pools of several sizes: deferred routes under
\* several paths, requested with the method in either case.
PoolCores == {1} \cup ((MinWorkers + 1)..MaxPoolCores)
InitAnyPool ==
    /\ \E cores \in PoolCores : AdmInitFor(cores)
    /\ RateInit
    /\ DispatchInit
HashPaths == {Str_ping, Str_job, Str_u4}
HashRequests == Requests({Str_GET, Str_get}, HashPaths, {<<None, None>>})
HashNext ==
    \/ \E p \in HashPaths : AddRouteBegin(Str_GET, p, "hAsync")
    \/ AddRouteFinish
    \/ \E s \in LimitedSlots :
          \/ \E req \in HashRequests : Arrive(s, req, MaxRequests)
          \/ RateSkip(s)
          \/ Lookup(s)
          \/ RouterLookup(s)
          \/ SendPoll(s)
          \/ AwaitReply(s)
    \/ \E w \in Workers :
          \/ WorkerRecv(w)
          \/ WorkerFinish(w, Ok(Str_one))

SpecHash == InitAnyPool /\ [][HashNext]_vars

\* The shaping of responses: one connection context, one direct route, and
\* handlers that fail with texts of every kind, requested under paths that
\* are registered, unknown, long, or hold a double quote or a backslash.
LongText == [i \in 1..LongLen |-> 120]
Str_quoted == <<115, 97, 121, 32, 34, 120, 34>>    \* say "x"
Str_backslash == <<99, 58, 92>>                  \* c:\
ErrorTexts ==
    { Str_boom, Str_validation, Str_timeout, Str_not_found,
      Str_timeout \o <<32>> \o Str_validation,
      Str_not_found \o <<32>> \o Str_timeout,
      Str_not_found \o <<32>> \o Str_validation,
      Str_quoted, Str_backslash,
      LongText, LongText \o Str_timeout }
ErrorOutcomes ==
    {Ok(Str_one)} \cup {Err(Str_python_error \o t) : t \in ErrorTexts}
ErrorPaths ==
    { Str_ping, Str_missing, <<47, 113, 34, 120, 34>>,   \* /q"x"
      <<47>> \o Str_backslash, <<47>> \o LongText }
ErrorRequests == Requests({Str_GET}, ErrorPaths, {<<None, None>>})
ErrorsNext ==
    \/ AddRouteBegin(Str_GET, Str_ping, "hSync")
    \/ AddRouteFinish
    \/ \E req \in ErrorRequests : Arrive(1, req, MaxRequests)
    \/ RateSkip(1)
    \/ Lookup(1)
    \/ \E outcome \in ErrorOutcomes : DirectCall(1, outcome)
    \/ RouterLookup(1)

SpecErrors == InitOneCore /\ [][ErrorsNext]_vars

\* Route resolution: one connection context, registrations of a literal
\* route and of a template with the method in either case and handlers of
\* both kinds, and requests that hit the literal route, the template or
\* nothing.
RouteMethods == {Str_GET, Str_get}
RouteRequests ==
    Requests(RouteMethods, {Str_ping, Str_u4, Str_missing}, {<<None, None>>})
RoutesNext ==
    \/ \E m \in RouteMethods, p \in {Str_ping, Str_u_tmpl}, h \in HandlerIds :
          AddRouteBegin(m, p, h)
    \/ AddRouteFinish
    \/ \E req \in RouteRequests : Arrive(1, req, MaxRequests)
    \/ RateSkip(1)
    \/ Lookup(1)
    \/ \E outcome \in DirectOutcomes : DirectCall(1, outcome)
    \/ RouterLookup(1)
    \/ SendPoll(1)
    \/ AwaitReply(1)
    \/ \E w \in Workers :
          \/ WorkerRecv(w)
          \/ \E outcome \in WorkerOutcomes : WorkerFinish(w, outcome)

SpecRoutes == InitOneCore /\ [][RoutesNext]_vars

\* Successful results: one connection context, a direct and a deferred
\* route under GET and HEAD, and handlers whose result is empty, short, of
\* the threshold's length or one byte longer.
SuccessResults ==
    { <<>>, Str_one, [i \in 1..ZeroCopyThreshold |-> 120],
      [i \in 1..(ZeroCopyThreshold + 1) |-> 120] }
SuccessNext ==
    \/ \E m \in {Str_GET, Str_HEAD}, h \in HandlerIds :
          AddRouteBegin(m, Str_ping, h)
    \/ AddRouteFinish
    \/ \E req \in Requests({Str_GET, Str_HEAD, Str_get},
                           {Str_ping}, {<<None, None>>}) :
          Arrive(1, req, MaxRequests)
    \/ RateSkip(1)
    \/ Lookup(1)
    \/ \E r \in SuccessResults : DirectCall(1, Ok(r))
    \/ RouterLookup(1)
    \/ SendPoll(1)
    \/ AwaitReply(1)
    \/ \E w \in Workers :
          \/ WorkerRecv(w)
          \/ \E r \in SuccessResults : WorkerFinish(w, Ok(r))

SpecSuccess == InitOneCore /\ [][SuccessNext]_vars

\* A handler that never resolves: two connection contexts, a route whose
\* handler hangs ("/x"), a second deferred route that the hash sends to
\* the same worker ("/u/4") and a route that it sends to another worker or
\* that is direct ("/ping").  Whenever a context or a worker thread can
\* take a step, some step is taken (the runs are finite, so this leaves
\* no step undone); a handler other than the hanging one comes back.
StallNext ==
    \/ AddRouteBegin(Str_GET, Str_missing, "hHang")
    \/ AddRouteBegin(Str_GET, Str_u4, "hAsync")
    \/ \E h \in HandlerIds : AddRouteBegin(Str_GET, Str_ping, h)
    \/ AddRouteFinish
    \/ \E s \in LimitedSlots :
          \/ \E req \in Requests({Str_GET}, {Str_missing, Str_u4, Str_ping},
                                 {<<None, None>>}) :
                Arrive(s, req, MaxRequests)
          \/ RateSkip(s)
          \/ Lookup(s)
          \/ DirectCall(s, Ok(Str_one))
          \/ RouterLookup(s)
          \/ SendPoll(s)
          \/ AwaitReply(s)
    \/ \E w \in Workers :
          \/ WorkerRecv(w)
          \/ Resolves(current[w].handler) /\ WorkerFinish(w, Ok(Str_one))

SpecStall ==
    /\ InitOneCore
    /\ [][StallNext]_vars
    /\ WF_vars(\/ \E s \in LimitedSlots :
                    \/ RateSkip(s)
                    \/ DirectCall(s, Ok(Str_one))
                    \/ SendPoll(s)
                    \/ AwaitReply(s)
               \/ \E w \in Workers :
                    \/ WorkerRecv(w)
                    \/ Resolves(current[w].handler)
                          /\ WorkerFinish(w, Ok(Str_one)))
    \* WF_vars(Lookup(s)) and WF_vars(RouterLookup(s)) written out: each
    \* is enabled exactly at its own position and always leaves it
    /\ \A s \in LimitedSlots : []<>(ctx[s].pc \notin {"lookup", "router"})

\* A worker that dies: three connection contexts and one deferred route,
\* so that the worker can die with one envelope in execution, one in its
\* queue and a sender parked, and be submitted to afterwards.  A context
\* whose send or reply can complete is eventually polled (the runs are
\* finite, so fairness of the three steps together leaves none undone).
CrashNext ==
    \/ AddRouteBegin(Str_GET, Str_job, "hAsync")
    \/ AddRouteFinish
    \/ \E s \in Slots :
          \/ \E req \in Requests({Str_GET}, {Str_job}, {<<None, None>>}) :
                Arrive(s, req, MaxRequests)
          \/ RateSkip(s)
          \/ Lookup(s)
          \/ RouterLookup(s)
          \/ SendPoll(s)
          \/ SendWake(s)
          \/ AwaitReply(s)
    \/ \E w \in Workers :
          \/ WorkerRecv(w)
          \/ WorkerFinish(w, Ok(Str_one))
          \/ WorkerDie(w)

SpecCrash ==
    /\ InitOneCore
    /\ [][CrashNext]_vars
    /\ WF_vars(\E s \in Slots : SendPoll(s) \/ SendWake(s) \/ AwaitReply(s))

\* ---------------------------------------------------------------- claims

\* C1: the number of connections holding a permit never exceeds the fixed
\* capacity; an accept made while every permit is held drops the connection
\* (no task is spawned, nothing is queued); and a release from the full state
\* leaves exactly one permit, which the next accept takes and the one after
\* that is refused.
C1_AdmissionBounded ==
    /\ [](tasks <= max_connections /\ available >= 0)
    /\ [][Accept /\ tasks = max_connections
            => tasks' = tasks /\ available' = 0 /\ lastAccept' = "dropped"]_vars
    /\ [][(\E how \in EndKinds : ConnEnd(how)) /\ tasks = max_connections
            => available' = 1]_vars
    /\ [][Accept /\ available = 1
            => available' = 0 /\ tasks' = tasks + 1 /\ lastAccept' = "admitted"]_vars

\* C1 witness: the pool is exhausted and the last accept was refused.
C1_Witness ==
    tasks = max_connections /\ available = 0 /\ lastAccept = "dropped"

\* C2: the permits held are exactly those of the live connection tasks: one
\* per task, returned on every kind of end.
C2_PermitsMatchTasks == available + tasks = max_connections

\* C2 witness: a task has ended by a panic while others are still live.
C2_Witness == lastEnd = "panic" /\ tasks > 0 /\ lastAccept = "admitted"

\* C3: for one client whose checks all take the lock, a check is admitted
\* exactly when it is among the first N of its window, where a window runs
\* from its first check to the window length after it (the reading the
\* reset test of line 588 itself takes), and the first check past it opens
\* the next window.
C3_QuotaPerWindow ==
    \A s \in Slots :
        ctx[s].checked \in {"admit", "reject"}
            => (ctx[s].checked = "admit"
                  <=> ctx[s].nth <= rate_config.requests_per_minute)

\* The admitted checks of a client later than time t.
AdmittedAfter(ip, t) ==
    Cardinality({i \in 1..Len(admitted[ip]) : admitted[ip][i] > t})

\* C4 as stated (sliding window): in no interval of window length does a
\* client get more than requests_per_minute checks admitted.
C4_SlidingWindow ==
    \A ip \in DOMAIN admitted :
        AdmittedAfter(ip, now - Window) <= rate_config.requests_per_minute

\* C4 as amended (fixed window): the count restarts with the window, so an
\* interval of window length can straddle a restart, and holds at most
\* twice requests_per_minute admitted checks of one client.
C4_FixedWindow ==
    \A ip \in DOMAIN admitted :
        AdmittedAfter(ip, now - Window)
            <= 2 * rate_config.requests_per_minute

\* C4 witness: a client has had more checks admitted inside one interval of
\* window length than its quota, after its window restarted.
C4_Witness ==
    \E ip \in DOMAIN admitted :
        /\ ip \in DOMAIN tracker
        /\ tracker[ip].start > 0
        /\ AdmittedAfter(ip, now - Window) > rate_config.requests_per_minute

\* C5: a request whose check fails is answered 429 with the fixed body and
\* retry-after: 60, and has made no registry lookup, no route-table lookup,
\* no handler call and no submission; and with quota 2, a client's first
\* two checked requests are not limited (200 when the direct handler
\* returns) and its third is answered 429.
C5_RejectShortCircuits ==
    \A s \in Slots :
        /\ ctx[s].checked = "reject"
             => /\ ctx[s].pc = "done"
                /\ ctx[s].resp.status = 429
                /\ ctx[s].resp.headers.retry_after = "60"
                /\ ctx[s].resp.headers.content_type = "application/json"
                /\ ctx[s].resp.body.error = "RateLimitExceeded"
                /\ ctx[s].resp.body.message = "Too many requests"
                /\ ctx[s].lookups = 0
                /\ ctx[s].routerLookups = 0
                /\ ctx[s].invoked = 0
                /\ ctx[s].sent = 0
        /\ (/\ rate_config.requests_per_minute = 2
            /\ ctx[s].checked \in {"admit", "reject"}
            /\ ctx[s].pc = "done")
             => /\ ctx[s].nth <= 2 /\ ctx[s].invoked = 1
                     /\ ctx[s].response_result.ok
                   => ctx[s].resp.status = 200
                /\ ctx[s].nth <= 2 => ctx[s].resp.status # 429
                /\ ctx[s].nth >= 3 => ctx[s].resp.status = 429

\* C5 witness: with quota 2, one slot holds the 200 of the client's second
\* request and the other the 429 of its third.
C5_Witness ==
    /\ rate_config.requests_per_minute = 2
    /\ \E s, t \in Slots :
          /\ ctx[s].pc = "done" /\ ctx[s].nth = 2 /\ ctx[s].resp.status = 200
          /\ ctx[t].pc = "done" /\ ctx[t].nth = 3 /\ ctx[t].resp.status = 429
          /\ ctx[t].lookups = 0

PastGate(s) == ctx[s].pc \notin {"idle", "rate"}

\* C6: with rate limiting enabled every request is checked, under the
\* identity of extract_client_ip: the first x-forwarded-for value, else
\* x-real-ip, else the default.
C6_EveryRequestChecked ==
    \A s \in Slots :
        PastGate(s) /\ ctx[s].gateEnabled
            => /\ ctx[s].checked # "no"
               /\ ctx[s].ip = extract_client_ip(ctx[s].req)

\* C7: the configuration in effect is that of the latest
\* configure_rate_limiting call.
C7_LatestConfigWins == rate_config = lastConfigure

\* C8: a check that finds the tracker locked is over in that one step: the
\* request goes on to the lookup as admitted, the holder keeps the lock, and
\* no tracked entry changes; and that step can always be taken while the
\* lock is held.
C8_FailsOpen ==
    /\ [][\A s \in Slots :
            RateChecked(s) /\ trackerLock # 0 /\ ctx'[s] # ctx[s]
                => /\ ctx'[s].pc = "lookup"
                   /\ ctx'[s].checked = "open"
                   /\ ctx'[s].resp = NoResp
                   /\ tracker' = tracker
                   /\ trackerLock' = trackerLock]_vars
    /\ [](\A s \in Slots :
            RateChecked(s) /\ trackerLock # 0 => ENABLED RateFailOpen(s))

\* C8 witness: a request went through on a failed try_lock while the other
\* context is still inside the lock.
C8_Witness ==
    \E s, t \in Slots :
        /\ ctx[s].checked = "open"
        /\ ctx[s].pc = "lookup"
        /\ ctx[t].pc = "rate_locked"
        /\ trackerLock = t

\* C9: no request ever waits for queue space, and a submission that cannot
\* be made is answered 503 with nothing queued.
C9_NoWaitForQueueSpace ==
    \A s \in Slots :
        /\ ctx[s].pc # "send_pending"
        /\ ~ctx[s].waited
        /\ ctx[s].chanFail = "send"
             => ctx[s].resp.status = 503 /\ ctx[s].sent = 0

\* C10: a request that saw its worker channel fail, on the send or on the
\* reply, is answered 503 "Service Unavailable".
C10_ChannelFailureIs503 ==
    \A s \in Slots :
        ctx[s].pc = "done" /\ ctx[s].chanFail # "none"
            => /\ ctx[s].resp.status = 503
               /\ ctx[s].resp.body.error = "Service Unavailable"

\* The envelopes of a slot's request that sit in a worker's queue or are
\* being executed by a worker.
EnvelopesAt(s, w) ==
    Cardinality({i \in 1..Len(queue[w]) : queue[w][i].slot = s})
        + (IF current[w].slot = s THEN 1 ELSE 0)
EnvelopesEntered ==
    Cardinality(UNION {{<<w, i>> : i \in 1..Len(entered[w])} : w \in Workers})

\* C11: a request has a response exactly when it is finished, and a
\* response once produced is not replaced; a request calls its handler
\* directly or submits an envelope at most once in all; its envelope is
\* only with the worker selected for it; no worker sends more replies than
\* envelopes entered its queue, and no more envelopes entered the queues
\* than requests were received.
C11_OneResponseNoRetry ==
    /\ [](\A s \in Slots :
            /\ ctx[s].pc = "done" <=> ctx[s].resp # NoResp
            /\ ctx[s].invoked + ctx[s].sent <= 1
            /\ \A w \in Workers :
                  /\ EnvelopesAt(s, w) <= ctx[s].sent
                  /\ EnvelopesAt(s, w) > 0 => w = ctx[s].worker)
    /\ [](/\ EnvelopesEntered <= issued
          /\ \A w \in Workers :
                Len(resolved[w]) + Len(queue[w])
                    + (IF current[w] = NoEnv THEN 0 ELSE 1) <= Len(entered[w]))
    /\ [][\A s \in Slots :
            ctx[s].resp # NoResp /\ ctx'[s] # ctx[s]
                => ctx'[s].pc = "rate" /\ ctx'[s].resp = NoResp]_vars

\* C11 witness: one request was answered after its single direct call that
\* failed, another after its single submission.
C11_Witness ==
    \E s, t \in Slots :
        /\ ctx[s].pc = "done" /\ ctx[s].invoked = 1 /\ ctx[s].sent = 0
        /\ ~ctx[s].response_result.ok /\ ctx[s].resp.status = 500
        /\ ctx[t].pc = "done" /\ ctx[t].sent = 1 /\ ctx[t].invoked = 0
        /\ ctx[t].resp.status = 200

\* FNV-1a (64 bit) of the route keys in use, reduced modulo each pool size
\* from 8 to 12; the values were computed apart from the model:
\* "GET /ping" 0x95003be379f2a0c6, "GET /job" 0xb23eb49d288d3de1,
\* "GET /x" 0x03cf31c3bce355e2, "GET /u/4" 0x79c4179d99a59cda.
Fnv1aIndex(method, path, n) ==
    LET m == ToUpper(method)
        by == IF m = Str_GET /\ path = Str_ping THEN <<6, 7, 6, 5, 10>>
              ELSE IF m = Str_GET /\ path = Str_job THEN <<1, 0, 9, 7, 9>>
              ELSE IF m = Str_GET /\ path = Str_missing THEN <<2, 4, 0, 2, 10>>
              ELSE IF m = Str_GET /\ path = Str_u4 THEN <<2, 1, 4, 6, 10>>
              ELSE <<>>
    IN  by[n - 7]

\* C12: a request on the deferred path has the worker index
\* FNV-1a(route key) mod worker count, which lies inside the pool; its
\* envelope is with that worker and no other; and two requests with the
\* same route key have the same worker.
C12_WorkerByHash ==
    \A s \in Slots :
        ctx[s].pc \in {"send", "send_pending", "await"}
            => /\ ctx[s].worker
                    = Fnv1aIndex(ctx[s].req.method, ctx[s].req.path,
                                 Cardinality(Workers))
               /\ ctx[s].worker \in Workers
               /\ \A w \in Workers :
                     EnvelopesAt(s, w) > 0 => w = ctx[s].worker
               /\ \A t \in Slots :
                     (/\ ctx[t].pc \in {"send", "send_pending", "await"}
                      /\ ToUpper(ctx[t].req.method) = ToUpper(ctx[s].req.method)
                      /\ ctx[t].req.path = ctx[s].req.path)
                        => ctx[t].worker = ctx[s].worker

\* C12 witness: in a pool of nine workers two requests with the same route
\* key, one sent as "get" and one as "GET", both have their envelope with
\* worker 7.
C12_Witness ==
    /\ Cardinality(Workers) = 9
    /\ \E s, t \in Slots :
          /\ ctx[s].pc = "await" /\ ctx[t].pc = "await"
          /\ ctx[s].req.method = Str_get /\ ctx[t].req.method = Str_GET
          /\ ctx[s].req.path = Str_ping /\ ctx[t].req.path = Str_ping
          /\ ctx[s].worker = 7 /\ ctx[t].worker = 7
          /\ EnvelopesAt(s, 7) + EnvelopesAt(t, 7) = 2

\* The envelopes a worker has taken from its queue so far.
Taken(w) == Len(resolved[w]) + (IF current[w] = NoEnv THEN 0 ELSE 1)

\* C13: a worker's replies are, in order, the first of the envelopes that
\* entered its queue; the envelope it executes is the next one after those
\* and the queued ones follow in order; and it leaves the envelope it
\* executes only by resolving that envelope's reply channel (with a value,
\* or dropped when the worker dies), taking nothing else in the same step.
C13_PerWorkerFifo ==
    /\ [](\A w \in Workers :
            /\ Len(resolved[w]) <= Len(entered[w])
            /\ resolved[w] = SubSeq(entered[w], 1, Len(resolved[w]))
            /\ current[w] # NoEnv
                  => /\ Taken(w) <= Len(entered[w])
                     /\ current[w].slot = entered[w][Taken(w)]
            /\ alive[w]
                  => /\ Taken(w) + Len(queue[w]) = Len(entered[w])
                     /\ \A i \in 1..Len(queue[w]) :
                           queue[w][i].slot = entered[w][Taken(w) + i])
    /\ [][\A w \in Workers :
            current[w] # NoEnv /\ current'[w] # current[w]
                => /\ current'[w] = NoEnv
                   /\ reply'[current[w].slot].state \in {"value", "dropped"}]_vars

\* C13 witness: a worker has replied to the first of three envelopes, is
\* executing the second, and the third waits in its queue.
C13_Witness ==
    \E w \in Workers :
        /\ Len(entered[w]) = 3
        /\ Len(resolved[w]) = 1
        /\ current[w] # NoEnv
        /\ Len(queue[w]) = 1
        /\ entered[w][1] # entered[w][2] /\ entered[w][2] # entered[w][3]

\* A request answered from a handler's error.
HandlerFailed(s) ==
    /\ ctx[s].pc = "done"
    /\ ctx[s].invoked + ctx[s].sent = 1
    /\ ~ctx[s].response_result.ok
    /\ ctx[s].chanFail # "send"

\* C14: a handler error whose text contains "validation" is answered 400
\* ValidationError; otherwise, if it contains "timeout", 408 TimeoutError;
\* otherwise, if it contains "not found", 404 NotFoundError; otherwise 500
\* InternalServerError; and the response carries x-error-recovery:
\* attempted.
C14_ErrorClassification ==
    \A s \in Slots :
        HandlerFailed(s) =>
            LET e == ctx[s].response_result.val
                v == Contains(e, Str_validation)
                t == Contains(e, Str_timeout)
                n == Contains(e, Str_not_found)
                r == ctx[s].resp
            IN  /\ v => r.status = 400 /\ r.body.error = "ValidationError"
                /\ ~v /\ t => r.status = 408 /\ r.body.error = "TimeoutError"
                /\ ~v /\ ~t /\ n
                      => r.status = 404 /\ r.body.error = "NotFoundError"
                /\ ~v /\ ~t /\ ~n
                      => r.status = 500 /\ r.body.error = "InternalServerError"
                /\ r.headers.x_error_recovery = "attempted"

\* C14 witness: an error text that holds "timeout" before "validation" was
\* answered 400 ValidationError.
C14_Witness ==
    \E s \in Slots :
        /\ HandlerFailed(s)
        /\ ctx[s].response_result.val
              = Str_python_error \o Str_timeout \o <<32>> \o Str_validation
        /\ ctx[s].resp.status = 400
        /\ ctx[s].resp.body.error = "ValidationError"
        /\ ctx[s].resp.headers.x_error_recovery = "attempted"

\* The registry has a handler for exactly the request's method (in any
\* case) and path.
ExactlyRegistered(req) == <<ToUpper(req.method), req.path>> \in DOMAIN lastReg

\* The request's path matches a template of the route table.
TemplateMatches(req) == RouterMatches(router, req.method, req.path) # {}

\* The request's path matches templates of the route table, and every one
\* it matches has a parameter segment.
ParamTemplateMatches(req) ==
    /\ TemplateMatches(req)
    /\ \A r \in RouterMatches(router, req.method, req.path) :
          \E i \in 1..Len(SplitAll(r.path, 47)) : IsParam(SplitAll(r.path, 47)[i])

\* C15: a request whose exact key is not registered goes to the route
\* table without a handler call or a submission, and if its path matches a
\* registered parameterized template the answer is the diagnostic 200 with
\* (name, value) pairs for the parameter segments, each value the path's own
\* segment ("/u/4" against "/u/{i}" gives i = 4); no handler has been
\* called, nothing was submitted and no worker state has changed.
C15_TemplateMatchDiagnostic ==
    /\ [][\A s \in Slots :
            ctx[s].pc = "lookup" /\ ctx'[s].pc # "lookup"
              /\ ~ExactlyRegistered(ctx[s].req)
                => ctx'[s].pc = "router" /\ ctx'[s].invoked = 0
                      /\ ctx'[s].sent = 0]_vars
    /\ [][\A s \in Slots :
            ctx[s].pc = "router" /\ ctx'[s].pc = "done"
              /\ ParamTemplateMatches(ctx[s].req)
                => /\ ctx'[s].resp.status = 200
                   /\ ctx'[s].resp.body.kind = "param_match"
                   /\ ctx'[s].resp.body.message = "Parameterized route found"
                   /\ ctx'[s].resp.body.params # <<>>
                   /\ \A i \in 1..Len(ctx'[s].resp.body.params) :
                         \E j \in 1..Len(SplitAll(ctx[s].req.path, 47)) :
                            ctx'[s].resp.body.params[i][2]
                                = SplitAll(ctx[s].req.path, 47)[j]
                   /\ ctx[s].req.path = Str_u4
                         => ctx'[s].resp.body.params = << << <<105>>, <<52>> >> >>
                   /\ ctx'[s].invoked = 0
                   /\ ctx'[s].sent = 0
                   /\ UNCHANGED poolVars]_vars

\* C15 witness: "GET /u/4" was answered with the diagnostic 200 and i = 4
\* while a handler is registered under the template "/u/{i}".
C15_Witness ==
    \E s \in Slots :
        /\ ctx[s].pc = "done"
        /\ ctx[s].req.path = Str_u4
        /\ ctx[s].resp.status = 200
        /\ ctx[s].resp.body.kind = "param_match"
        /\ ctx[s].resp.body.params = << << <<105>>, <<52>> >> >>
        /\ ctx[s].invoked = 0
        /\ <<Str_GET, Str_u_tmpl>> \in DOMAIN lastReg

\* C16: a request whose exact key is not registered and whose path matches
\* no template is answered 404 with error "Not Found" and its own method
\* and path in the body; no handler has been called, nothing was submitted
\* and no worker state has changed.
C16_NotFound ==
    /\ [][\A s \in Slots :
            ctx[s].pc = "lookup" /\ ctx'[s].pc # "lookup"
              /\ ~ExactlyRegistered(ctx[s].req)
                => ctx'[s].pc = "router"]_vars
    /\ [][\A s \in Slots :
            ctx[s].pc = "router" /\ ctx'[s].pc = "done"
              /\ ~TemplateMatches(ctx[s].req)
                => /\ ctx'[s].resp.status = 404
                   /\ ctx'[s].resp.body.error = "Not Found"
                   /\ ctx'[s].resp.body.method = ctx[s].req.method
                   /\ ctx'[s].resp.body.path = ctx[s].req.path
                   /\ ctx'[s].invoked = 0
                   /\ ctx'[s].sent = 0
                   /\ UNCHANGED poolVars]_vars

\* C16 witness: "/x" was answered 404 Not Found while other routes are
\* registered.
C16_Witness ==
    \E s \in Slots :
        /\ ctx[s].pc = "done"
        /\ ctx[s].req.path = Str_missing
        /\ ctx[s].resp.status = 404
        /\ ctx[s].resp.body.error = "Not Found"
        /\ ctx[s].resp.body.path = Str_missing
        /\ router # {}

\* C17: the lookup of a request whose (method in any case, path) has been
\* registered yields the handler of the latest add_route call for it, with
\* that handler's classification, and sends the request on the direct or
\* the deferred path accordingly; the envelope of a deferred request
\* carries that handler.
C17_LatestRegistrationWins ==
    /\ [][\A s \in Slots :
            ctx[s].pc = "lookup" /\ ctx'[s].pc # "lookup"
              /\ ExactlyRegistered(ctx[s].req)
                => LET h == lastReg[<<ToUpper(ctx[s].req.method),
                                      ctx[s].req.path>>]
                   IN  /\ ctx'[s].meta.handler = h
                       /\ ctx'[s].meta.is_async = IsCoroutineFunction(h)
                       /\ ctx'[s].pc = IF IsCoroutineFunction(h)
                                         THEN "send" ELSE "direct"]_vars
    /\ [](\A s \in Slots : \A w \in Workers :
            /\ current[w].slot = s
                  => current[w].handler = ctx[s].meta.handler
            /\ \A i \in 1..Len(queue[w]) :
                  queue[w][i].slot = s
                      => queue[w][i].handler = ctx[s].meta.handler)

\* C17 witness: after two add_route calls for the one key "GET /ping", the
\* second made with the method as "get", a request sent as "get /ping" is
\* with a worker under the deferred handler of the latest call, while the
\* template route is not registered.
C17_Witness ==
    \E s \in Slots : \E w \in Workers :
        /\ regs = 2
        /\ DOMAIN lastReg = {<<Str_GET, Str_ping>>}
        /\ lastReg[<<Str_GET, Str_ping>>] = "hAsync"
        /\ ctx[s].req.method = Str_get
        /\ ctx[s].pc = "await"
        /\ current[w].slot = s
        /\ current[w].handler = "hAsync"

\* C18: every response that has been produced carries content-type:
\* application/json.
C18_JsonContentType ==
    \A s \in Slots :
        ctx[s].resp # NoResp
            => ctx[s].resp.headers.content_type = "application/json"

\* The positions of s, in increasing order
InOrder(S) ==
    [k \in 1..Cardinality(S) |->
        CHOOSE p \in S : Cardinality({q \in S : q < p}) = k - 1]
\* The number of backslashes that stand immediately before position i
BackslashesBefore(s, i) ==
    Cardinality({k \in 1..(i - 1) : \A j \in (i - k)..(i - 1) : s[j] = 92})
\* The double quotes of s that no backslash escapes
JsonQuotes(s) ==
    InOrder({i \in 1..Len(s) : s[i] = 34 /\ BackslashesBefore(s, i) % 2 = 0})
\* The tokens of s outside its strings: one position per string (its
\* opening quote) and one per other byte that is not white space
JsonTokens(s) ==
    LET q == JsonQuotes(s)
        strs == 1..(Len(q) \div 2)
    IN  InOrder({i \in 1..Len(s) :
                    /\ \A k \in strs : ~(q[2 * k - 1] < i /\ i <= q[2 * k])
                    /\ s[i] \notin {32, 9, 10, 13}})
\* Conditions that every JSON text (RFC 8259) which is an object of strings
\* and numbers meets: the quotes pair up, strings hold no control byte and
\* no backslash outside an escape, and outside the strings there is
\* { key : value , ... } and nothing else.
JsonObject(s) ==
    LET q == JsonQuotes(s)
        strs == 1..(Len(q) \div 2)
        t == JsonTokens(s)
        n == Len(t)
        tok(k) == s[t[k]]
        IsDigit(c) == c \in 48..57
    IN  /\ Len(q) % 2 = 0
        /\ \A k \in strs : \A i \in (q[2 * k - 1] + 1)..(q[2 * k] - 1) :
              /\ s[i] >= 32
              /\ (s[i] = 92 /\ BackslashesBefore(s, i) % 2 = 0)
                    => s[i + 1] \in {34, 92, 47, 98, 102, 110, 114, 116, 117}
        /\ n >= 2 /\ tok(1) = 123 /\ tok(n) = 125
        /\ \A k \in 2..(n - 1) :
              CASE tok(k) = 34 ->
                     \/ tok(k - 1) \in {123, 44} /\ tok(k + 1) = 58
                     \/ tok(k - 1) = 58 /\ tok(k + 1) \in {44, 125}
                [] tok(k) = 58 -> tok(k - 1) = 34 /\ k > 2
                [] tok(k) = 44 -> tok(k + 1) = 34
                [] IsDigit(tok(k)) ->
                     /\ tok(k - 1) = 58 \/ IsDigit(tok(k - 1))
                     /\ tok(k + 1) \in {44, 125} \/ IsDigit(tok(k + 1))
                [] OTHER -> FALSE
\* The names of the fields of the object s
JsonKeys(s) ==
    LET q == JsonQuotes(s)
        t == JsonTokens(s)
    IN  { SubSeq(s, q[2 * k - 1] + 1, q[2 * k] - 1) :
            k \in {j \in 1..(Len(q) \div 2) :
                     \E i \in 2..Len(t) :
                        t[i] = q[2 * j - 1] /\ s[t[i - 1]] \in {123, 44}} }
FailureKinds == {"rate_limit", "unavailable", "handler_error", "not_found"}

\* C19: the body of every failure response (handler error, 404, 429, 503)
\* is a non-empty well-formed JSON object with an error field and a message
\* field, whatever the handler's error text and the request path hold.
C19_FailureBodiesAreJson ==
    \A s \in Slots :
        ctx[s].resp.body.kind \in FailureKinds
            => LET b == BodyText(ctx[s].resp.body)
               IN  /\ b # <<>>
                   /\ JsonObject(b)
                   /\ {<<101, 114, 114, 111, 114>>,
                       <<109, 101, 115, 115, 97, 103, 101>>} \subseteq JsonKeys(b)

\* The text of the string that is the value of the field name of the
\* object s
JsonField(s, name) ==
    LET q == JsonQuotes(s)
        t == JsonTokens(s)
        j == CHOOSE k \in 1..((Len(q) \div 2) - 1) :
                /\ SubSeq(s, q[2 * k - 1] + 1, q[2 * k] - 1) = name
                /\ \E i \in 2..Len(t) :
                      t[i] = q[2 * k - 1] /\ s[t[i - 1]] \in {123, 44}
    IN  SubSeq(s, q[2 * j + 1] + 1, q[2 * j + 2] - 1)

\* C20: in every error response the message field has at most 200
\* characters, whatever the length of the handler's error text and of the
\* request path.
C20_MessageAtMost200 ==
    \A s \in Slots :
        LET b == BodyText(ctx[s].resp.body)
        IN  (ctx[s].resp.body.kind \in FailureKinds /\ JsonObject(b))
               => Len(JsonField(b, <<109, 101, 115, 115, 97, 103, 101>>))
                     <= MessageLimit

\* C21: a handler result s gives status 200, content-type application/json
\* and a content-length equal to the length of s; the body is s, and is
\* empty for HEAD, on either side of the 1 KB threshold.
C21_SuccessResponse ==
    \A s \in Slots :
        (ctx[s].pc = "done" /\ ctx[s].invoked + ctx[s].sent > 0
         /\ ctx[s].chanFail = "none" /\ ctx[s].response_result.ok)
            => /\ ctx[s].resp.status = 200
               /\ ctx[s].resp.headers.content_type = "application/json"
               /\ ctx[s].resp.headers.content_length
                     = Len(ctx[s].response_result.val)
               /\ BodyText(ctx[s].resp.body)
                     = IF ToUpper(ctx[s].req.method) = Str_HEAD THEN <<>>
                       ELSE ctx[s].response_result.val
C21_Witness ==
    \E s \in Slots :
        /\ ctx[s].pc = "done"
        /\ ctx[s].req.method = Str_HEAD
        /\ ctx[s].sent = 1
        /\ ctx[s].response_result.ok
        /\ Len(ctx[s].response_result.val) > ZeroCopyThreshold
        /\ ctx[s].resp.status = 200
        /\ ctx[s].resp.headers.content_length = ZeroCopyThreshold + 1
        /\ ctx[s].resp.body.payload = <<>>

\* C22: the classification probe runs at add_route only: no worker that
\* executes an envelope has probed the envelope's handler.
C22_ProbeOnlyAtRegistration ==
    \A w \in Workers : current[w].probes = 0

\* C23: where a handler runs is decided by the flag stored with it at
\* registration.  The stored flag is the probe's answer for the stored
\* handler; a request calls its handler on its own context only when the
\* entry it found is direct, and then no envelope of it exists; a request
\* submits an envelope only when the entry it found is deferred, and then
\* makes no direct call; and an envelope holds a deferred handler and is
\* with the worker that the hash of the route key selects.
C23_ContextByStoredFlag ==
    /\ \A k \in DOMAIN handlers :
          handlers[k].is_async = IsCoroutineFunction(handlers[k].handler)
    /\ \A s \in Slots :
          /\ ctx[s].invoked > 0
                => /\ ctx[s].meta.handler \in HandlerIds
                   /\ ~ctx[s].meta.is_async
                   /\ ctx[s].sent = 0
                   /\ \A w \in Workers : EnvelopesAt(s, w) = 0
          /\ ctx[s].sent > 0
                => /\ ctx[s].meta.handler \in HandlerIds
                   /\ ctx[s].meta.is_async
                   /\ ctx[s].invoked = 0
          /\ (ctx[s].meta.handler \in HandlerIds /\ ~ctx[s].meta.is_async)
                => ctx[s].pc \in {"direct", "done"}
          /\ \A w \in Workers :
                EnvelopesAt(s, w) > 0
                   => /\ ctx[s].meta.is_async
                      /\ w = Fnv1aIndex(ctx[s].req.method, ctx[s].req.path,
                                        Cardinality(Workers))
    /\ \A w \in Workers :
          /\ current[w] # NoEnv => IsCoroutineFunction(current[w].handler)
          /\ \A i \in 1..Len(queue[w]) :
                IsCoroutineFunction(queue[w][i].handler)

\* C23 witness: at the same moment one request has been answered by a
\* direct call on its own context and the envelope of another is being
\* executed by the selected worker.
C23_Witness ==
    \E s, t \in Slots :
        /\ ctx[s].pc = "done" /\ ctx[s].invoked = 1 /\ ctx[s].sent = 0
        /\ ctx[s].meta.handler = "hSync"
        /\ ctx[t].pc = "await" /\ ctx[t].sent = 1 /\ ctx[t].invoked = 0
        /\ ctx[t].meta.handler = "hAsync"
        /\ current[ctx[t].worker].slot = t

\* The worker w is executing a handler that never resolves
Stalled(w) == current[w].handler = "hHang"

\* C24: a worker that executes a handler which never resolves stays on that
\* envelope and sends no further reply, and a request whose envelope waits
\* on that worker keeps waiting; a request for a route that is direct or is
\* hashed to another worker is still answered.
C24_StallIsPerWorker ==
    /\ [][\A w \in Workers :
            Stalled(w) => /\ current'[w] = current[w]
                          /\ resolved'[w] = resolved[w]]_vars
    /\ [][\A s \in LimitedSlots :
            (/\ ctx[s].pc = "await"
             /\ Stalled(ctx[s].worker)
             /\ reply[s].state = "pending")
                => /\ ctx'[s].pc = "await"
                   /\ reply'[s].state = "pending"]_vars
    /\ \A s \in LimitedSlots :
          (ctx[s].req.path = Str_ping /\ ctx[s].pc # "done")
              ~> (ctx[s].pc = "done" /\ ctx[s].resp # NoResp)

\* C24 witness: a worker is stalled, the envelope of a later request for
\* another route waits in its queue, and a request for a route of another
\* worker has been answered meanwhile.
C24_Witness ==
    \E w \in Workers, s \in LimitedSlots :
        /\ Stalled(w)
        /\ current[w].path = Str_missing
        /\ ctx[s].pc = "done"
        /\ ctx[s].req.path = Str_ping
        /\ ctx[s].resp.status = 200

\* C25: every envelope that a worker has received gets its reply channel
\* resolved, once, with the result of its own handler invocation: the
\* worker leaves an envelope only by putting a result into that envelope's
\* channel, which held none before, and the requester takes what its own
\* channel holds.
C25_ReplyResolvedOnce ==
    /\ [][\A w \in Workers :
            (current[w] # NoEnv /\ current'[w] # current[w])
                => /\ reply[current[w].slot].state = "pending"
                   /\ reply'[current[w].slot].state = "value"
                   /\ \A s \in Slots \ {current[w].slot} :
                         reply'[s] = reply[s]]_vars
    /\ [][\A s \in Slots :
            (ctx[s].pc = "await" /\ ctx'[s].pc = "done")
                => /\ reply[s].state = "value"
                   /\ ctx'[s].response_result = reply[s].res
                   /\ reply'[s] = NoReply]_vars

\* C26: the tracker loses entries only in a check call that finds more
\* clients tracked than the ceiling; after such a compaction no entry is
\* older than the window; and an entry whose window has not expired by the
\* reset test is never removed: that of another client stays as it was,
\* that of the checked client stays with the count just recorded.
C26_CompactionKeepsLiveEntries ==
    [][\A s \in Slots :
         ctx[s].pc = "rate_locked" /\ ctx'[s].pc # "rate_locked"
            => LET ip == ClientIp(ctx[s].req).val
                   compacted == \E k \in (DOMAIN tracker) \cup {ip} :
                                   k \notin DOMAIN tracker'
               IN  /\ compacted
                        => /\ Cardinality((DOMAIN tracker) \cup {ip})
                                 > TrackerCeiling
                           /\ \A k \in DOMAIN tracker' :
                                 ~WindowExpired(now - tracker'[k].start)
                   /\ \A k \in (DOMAIN tracker) \ {ip} :
                         ~WindowExpired(now - tracker[k].start)
                            => /\ k \in DOMAIN tracker'
                               /\ tracker'[k] = tracker[k]
                   /\ /\ ip \in DOMAIN tracker'
                      /\ tracker'[ip].count
                            = IF ip \in DOMAIN tracker
                                 /\ ~WindowExpired(now - tracker[ip].start)
                                THEN tracker[ip].count + 1
                                ELSE 1]_vars

\* C27: add_route is atomic for dispatch.  A request never reads the
\* handler registry or the route table at a moment when the registry holds
\* a key whose template the route table lacks; and a request is never
\* answered from the route table (diagnostic 200) while the registry holds
\* a handler under the request's own key, an answer that neither the state
\* before nor the state after the registration gives.
C27_AddRouteAtomic ==
    /\ [][\A s \in Slots :
            (ctx[s].pc \in {"lookup", "router"} /\ ctx'[s].pc # ctx[s].pc)
                => \A k \in DOMAIN handlers : \E r \in router : r.key = k]_vars
    /\ [][\A s \in Slots :
            (/\ ctx[s].pc = "router"
             /\ ctx'[s].pc = "done"
             /\ ctx'[s].resp.body.kind = "param_match")
                => create_route_key_fast(ctx[s].req.method, ctx[s].req.path)
                      \notin DOMAIN handlers]_vars

\* C28: after a worker has died, every requester whose envelope it was
\* executing or had in its queue is resumed and answers, and so does every
\* sender to it; a submission to the dead worker is answered 503 without an
\* envelope entering and without a handler call; and the worker stays dead,
\* receives nothing and sends no reply.
C28_WorkerDeathResumesAll ==
    /\ \A s \in Slots :
          (ctx[s].pc \in {"send", "send_pending", "await"}
             /\ ~alive[ctx[s].worker])
              ~> (/\ ctx[s].pc = "done"
                  /\ ctx[s].resp # NoResp
                  /\ ctx[s].chanFail = "reply" => ctx[s].resp.status = 500
                  /\ ctx[s].chanFail = "send" => ctx[s].resp.status = 503)
    /\ [][\A s \in Slots :
            (/\ ctx[s].pc \in {"send", "send_pending"}
             /\ ~alive[ctx[s].worker]
             /\ ctx'[s] # ctx[s])
                => /\ ctx'[s].pc = "done"
                   /\ ctx'[s].resp = UnavailableResponse
                   /\ ctx'[s].sent = 0
                   /\ ctx'[s].invoked = 0
                   /\ UNCHANGED <<queue, current, entered, resolved>>]_vars
    /\ [][\A w \in Workers :
            ~alive[w] => /\ ~alive'[w]
                         /\ queue'[w] = <<>>
                         /\ current'[w] = NoEnv
                         /\ resolved'[w] = resolved[w]]_vars

\* C28 witness: a worker is dead; the requester of an envelope that was
\* waiting in its queue has answered 500, and a request submitted to it
\* afterwards has answered 503 without a handler call.
C28_Witness ==
    \E s, t \in Slots :
        /\ ~alive[ctx[s].worker]
        /\ ctx[s].pc = "done" /\ ctx[s].chanFail = "reply"
        /\ ctx[s].resp.status = 500
        /\ entered[ctx[s].worker][Len(entered[ctx[s].worker])] = s
        /\ Len(entered[ctx[s].worker]) = 2
        /\ ctx[t].pc = "done" /\ ctx[t].chanFail = "send"
        /\ ctx[t].worker = ctx[s].worker
        /\ ctx[t].resp.status = 503 /\ ctx[t].sent = 0 /\ ctx[t].invoked = 0
====
